---- MODULE Spec2Model ----
(***************************************************************************)
(* A model of magnum_cluster_api/driver.py: BaseDriver, the Magnum driver  *)
(* that creates, polls and deletes a Kubernetes cluster through Cluster    *)
(* API objects (pykube) and a Keystone application credential.             *)
(*                                                                         *)
(* One cluster is modelled.  A status string such as "CREATE_IN_PROGRESS"  *)
(* is the sequence of its "_"-separated parts, so that split("_")[0] and   *)
(* f"{action}_COMPLETE" are computed as the code computes them.            *)
(***************************************************************************)
EXTENDS Naturals, Sequences, FiniteSets

\* Bounds of the model.
MaxGroups == 2        \* node groups of the cluster: 1..MaxGroups
MaxFaults == 1        \* calls of create_cluster that the facade fails, in one behaviour

VARIABLES
    network_driver,   \* cluster.cluster_template.network_driver
    roles,            \* cluster.nodegroups[i].role
    cluster,          \* the cluster object handed to the driver: status, api_address, coe_version
    cluster_db,       \* the cluster record as of its last save()
    nodegroups,       \* cluster.nodegroups[i]: status, status_reason
    nodegroups_db,    \* the node-group records as of their last save()
    k8s,              \* the objects present in the management cluster
    teardown,         \* the top-level Cluster object has been asked to go
    creds,            \* application credentials named cluster.uuid, for cluster.user_id
    calls,            \* the calls the last invocation completed, in order
    last,             \* the last invocation: entry point, outcome, what it read
    faults,           \* the failures the facade still has in store for create_cluster
    history           \* what has happened so far (ghost)

vars == <<network_driver, roles, cluster, cluster_db, nodegroups, nodegroups_db,
          k8s, teardown, creds, calls, last, faults, history>>

None == "None"

--------------------------------------------------------------------------
\* objects.fields.ClusterStatus, as sequences of "_"-separated parts

Join(action, phase) == <<action>> \o phase

IN_PROGRESS == <<"IN", "PROGRESS">>
COMPLETE == <<"COMPLETE">>
FAILED == <<"FAILED">>

CREATE_IN_PROGRESS == Join("CREATE", IN_PROGRESS)
CREATE_COMPLETE == Join("CREATE", COMPLETE)
CREATE_FAILED == Join("CREATE", FAILED)
UPDATE_IN_PROGRESS == Join("UPDATE", IN_PROGRESS)
UPDATE_COMPLETE == Join("UPDATE", COMPLETE)
DELETE_IN_PROGRESS == Join("DELETE", IN_PROGRESS)
DELETE_COMPLETE == Join("DELETE", COMPLETE)

Actions == {"CREATE", "UPDATE", "DELETE"}

\* nodegroup.status.split("_")[0]
ActionOf(status) == Head(status)

--------------------------------------------------------------------------
\* The resources of magnum_cluster_api.resources, named by class and node group
\* (0: a resource of the cluster, not of one node group).

Res(kind, ng) == <<kind, ng>>

Namespace == Res("Namespace", 0)
CloudControllerManagerConfigMap == Res("CloudControllerManagerConfigMap", 0)
CloudControllerManagerClusterResourceSet == Res("CloudControllerManagerClusterResourceSet", 0)
CalicoConfigMap == Res("CalicoConfigMap", 0)
CalicoClusterResourceSet == Res("CalicoClusterResourceSet", 0)
CloudConfigSecret == Res("CloudConfigSecret", 0)
ApiCertificateAuthoritySecret == Res("ApiCertificateAuthoritySecret", 0)
EtcdCertificateAuthoritySecret == Res("EtcdCertificateAuthoritySecret", 0)
FrontProxyCertificateAuthoritySecret == Res("FrontProxyCertificateAuthoritySecret", 0)
ServiceAccountCertificateAuthoritySecret == Res("ServiceAccountCertificateAuthoritySecret", 0)
OpenStackCluster == Res("OpenStackCluster", 0)
Cluster == Res("Cluster", 0)
KubeadmConfigTemplate == Res("KubeadmConfigTemplate", 0)
OpenStackMachineTemplate(i) == Res("OpenStackMachineTemplate", i)
KubeadmControlPlane(i) == Res("KubeadmControlPlane", i)
MachineDeployment(i) == Res("MachineDeployment", i)
ApplicationCredential == Res("ApplicationCredential", 0)

CertificateAuthoritySecrets ==
    {ApiCertificateAuthoritySecret, EtcdCertificateAuthoritySecret,
     FrontProxyCertificateAuthoritySecret, ServiceAccountCertificateAuthoritySecret}

Call(op, res) == [op |-> op, res |-> res]

--------------------------------------------------------------------------
\* The calls of each entry point, in program order

\* create_nodegroup: lines 191-204
create_nodegroup(i) ==
    <<Call("apply", OpenStackMachineTemplate(i))>> \o
    (IF roles[i] = "master"
     THEN <<Call("apply", KubeadmControlPlane(i))>>
     ELSE <<Call("apply", KubeadmConfigTemplate), Call("apply", MachineDeployment(i))>>)

\* A teardown that deletes the OpenStackMachineTemplate first
delete_nodegroup_template_first(i) ==
    <<Call("delete", OpenStackMachineTemplate(i))>> \o
    (IF roles[i] = "master"
     THEN <<Call("delete", KubeadmControlPlane(i))>>
     ELSE <<Call("delete", MachineDeployment(i)), Call("delete", KubeadmConfigTemplate)>>)

\* delete_nodegroup: lines 246-252
delete_nodegroup(i) ==
    (IF roles[i] = "master"
     THEN <<Call("delete", KubeadmControlPlane(i))>>
     ELSE <<Call("delete", MachineDeployment(i)), Call("delete", KubeadmConfigTemplate)>>)
    \o <<Call("delete", OpenStackMachineTemplate(i))>>

\* create_cluster, lines 65-66: for node_group in cluster.nodegroups, from i on
RECURSIVE create_nodegroups(_)
create_nodegroups(i) ==
    IF i > Len(roles) THEN <<>> ELSE create_nodegroup(i) \o create_nodegroups(i + 1)

\* delete_cluster, lines 175-176: for node_group in cluster.nodegroups, from i on
RECURSIVE delete_nodegroups(_)
delete_nodegroups(i) ==
    IF i > Len(roles) THEN <<>> ELSE delete_nodegroup(i) \o delete_nodegroups(i + 1)

\* create_cluster with the CloudConfigSecret applied before the credential is
\* issued, and the Cluster before the OpenStackCluster
create_cluster_calls_out_of_order ==
    <<Call("apply", Namespace),
      Call("apply", CloudControllerManagerConfigMap),
      Call("apply", CloudControllerManagerClusterResourceSet)>>
    \o (IF network_driver = "calico"
        THEN <<Call("apply", CalicoConfigMap), Call("apply", CalicoClusterResourceSet)>>
        ELSE <<>>)
    \o <<Call("apply", CloudConfigSecret),
         Call("create", ApplicationCredential),
         Call("apply", ApiCertificateAuthoritySecret),
         Call("apply", EtcdCertificateAuthoritySecret),
         Call("apply", FrontProxyCertificateAuthoritySecret),
         Call("apply", ServiceAccountCertificateAuthoritySecret)>>
    \o create_nodegroups(1)
    \o <<Call("apply", Cluster), Call("apply", OpenStackCluster)>>

\* create_cluster: lines 42-69
create_cluster_calls ==
    <<Call("apply", Namespace),
      Call("apply", CloudControllerManagerConfigMap),
      Call("apply", CloudControllerManagerClusterResourceSet)>>
    \o (IF network_driver = "calico"
        THEN <<Call("apply", CalicoConfigMap), Call("apply", CalicoClusterResourceSet)>>
        ELSE <<>>)
    \o <<Call("create", ApplicationCredential),
         Call("apply", CloudConfigSecret),
         Call("apply", ApiCertificateAuthoritySecret),
         Call("apply", EtcdCertificateAuthoritySecret),
         Call("apply", FrontProxyCertificateAuthoritySecret),
         Call("apply", ServiceAccountCertificateAuthoritySecret)>>
    \o create_nodegroups(1)
    \o <<Call("apply", OpenStackCluster), Call("apply", Cluster)>>

\* delete_cluster: lines 172-176
delete_cluster_calls ==
    <<Call("delete", Cluster), Call("delete", OpenStackCluster)>>
    \o delete_nodegroups(1)

\* update_cluster_status, delete path: lines 134-138
delete_secrets_calls ==
    <<Call("delete", CloudConfigSecret),
      Call("delete", ApiCertificateAuthoritySecret),
      Call("delete", EtcdCertificateAuthoritySecret),
      Call("delete", FrontProxyCertificateAuthoritySecret),
      Call("delete", ServiceAccountCertificateAuthoritySecret)>>

--------------------------------------------------------------------------
\* The backends: what a completed call does to the management cluster and to
\* the credential store.

\* apply(): an idempotent upsert
Apply(objs, res) == objs \cup {res}

\* delete(): removes the object, absent or not; the top-level Cluster object
\* carries a finalizer and stays until the external reconciler is done with it
Delete(objs, res) == IF res = Cluster THEN objs ELSE objs \ {res}

Effect(st, c) ==
    CASE c.op = "apply" -> [st EXCEPT !.k8s = Apply(st.k8s, c.res)]
      [] c.op = "delete" ->
            [st EXCEPT !.k8s = Delete(st.k8s, c.res),
                       !.teardown = st.teardown \/ (c.res = Cluster /\ Cluster \in st.k8s)]
      [] c.op = "create" -> [st EXCEPT !.creds = st.creds \cup {c.res}]
      [] c.op = "revoke" -> [st EXCEPT !.creds = st.creds \ {c.res}]

RECURSIVE Run(_, _)
Run(cs, st) == IF cs = <<>> THEN st ELSE Run(Tail(cs), Effect(st, Head(cs)))

World == [k8s |-> k8s, teardown |-> teardown, creds |-> creds]

Position(cs, c) == CHOOSE j \in 1..Len(cs) : cs[j] = c

--------------------------------------------------------------------------
\* What reload() may return: the status documents of the external objects,
\* as records that hold a key or do not.

Get(d, k, default) == IF k \in DOMAIN d THEN d[k] ELSE default

Condition(t, s) == [type |-> t, status |-> s]

\* capi_cluster.obj["status"]
ClusterStatusDocs ==
    {<< >>,
     [conditions |-> << >>],
     [conditions |-> <<Condition("InfrastructureReady", "True")>>],
     [conditions |-> <<Condition("InfrastructureReady", "True"),
                       Condition("ControlPlaneReady", "False")>>],
     [conditions |-> <<Condition("InfrastructureReady", "True"),
                       Condition("ControlPlaneReady", "True")>>]}

\* capi_cluster.obj["spec"]["controlPlaneEndpoint"]
controlPlaneEndpoint == [host |-> "192.0.2.10", port |-> "6443"]

\* kcp.obj["status"], as far as ready and failureMessage go
KcpStatusDocs ==
    {<< >>, [ready |-> FALSE], [ready |-> TRUE],
     [failureMessage |-> "boom"],
     [ready |-> FALSE, failureMessage |-> "boom"],
     [ready |-> TRUE, failureMessage |-> "boom"]}

\* kcp.obj["status"]["version"]
Versions == {"v1.24.3", "v1.25.0"}

Phases == {"ScalingUp", "ScalingDown", "Running", "Failed", "Unknown"}

\* md.obj["status"]: a phase of the enumeration, another value, or no phase
MdStatusDocs == {<< >>} \cup {[phase |-> p] : p \in Phases \cup {""}}

StatusDocs(i) == IF roles[i] = "master" THEN KcpStatusDocs ELSE MdStatusDocs

\* {c["type"]: c["status"] for c in conditions}: a later entry replaces an earlier
StatusMap(conditions) ==
    [t \in {conditions[j].type : j \in DOMAIN conditions} |->
        LET js == {j \in DOMAIN conditions : conditions[j].type = t}
            jmax == CHOOSE j \in js : \A k \in js : k <= j
        IN conditions[jmax].status]

\* f"https://{host}:{port}"
ApiAddress(endpoint) == <<"https://", endpoint.host, ":", endpoint.port>>

--------------------------------------------------------------------------
\* update_nodegroup_status: lines 206-238

\* A master that is not ready is put back in progress
MasterStatus_not_ready_in_progress(action, ready, status) ==
    IF ready THEN Join(action, COMPLETE) ELSE Join(action, IN_PROGRESS)

\* lines 218-219
MasterStatus(action, ready, status) ==
    IF ready THEN Join(action, COMPLETE) ELSE status

\* A table that takes Unknown for a phase in progress
WorkerStatus_unknown_in_progress(action, phase, status) ==
    IF phase \in {"ScalingUp", "ScalingDown", "Unknown"} THEN Join(action, IN_PROGRESS)
    ELSE IF phase = "Running" THEN Join(action, COMPLETE)
    ELSE IF phase = "Failed" THEN Join(action, FAILED)
    ELSE status

\* A table without the branch of the failed phases
WorkerStatus_no_failed(action, phase, status) ==
    IF phase \in {"ScalingUp", "ScalingDown"} THEN Join(action, IN_PROGRESS)
    ELSE IF phase = "Running" THEN Join(action, COMPLETE)
    ELSE status

\* lines 229-234
WorkerStatus(action, phase, status) ==
    IF phase \in {"ScalingUp", "ScalingDown"} THEN Join(action, IN_PROGRESS)
    ELSE IF phase = "Running" THEN Join(action, COMPLETE)
    ELSE IF phase \in {"Failed", "Unknown"} THEN Join(action, FAILED)
    ELSE status

\* The node group after the poll, or raised: reload() of an object that is not
\* there, or md.obj["status"]["phase"] of a status without a phase.
update_nodegroup_status(i, nodegroup, doc, objs) ==
    LET action == ActionOf(nodegroup.status) IN
    IF roles[i] = "master"
    THEN IF KubeadmControlPlane(i) \notin objs
         THEN [raised |-> TRUE, nodegroup |-> nodegroup]
         ELSE LET ready == Get(doc, "ready", FALSE)
                  failure_message == Get(doc, "failureMessage", None)
              IN [raised |-> FALSE,
                  nodegroup |-> [status |-> MasterStatus(action, ready, nodegroup.status),
                                 status_reason |-> failure_message]]
    ELSE IF MachineDeployment(i) \notin objs \/ "phase" \notin DOMAIN doc
         THEN [raised |-> TRUE, nodegroup |-> nodegroup]
         ELSE [raised |-> FALSE,
               nodegroup |-> [nodegroup EXCEPT
                                !.status = WorkerStatus(action, doc.phase, nodegroup.status)]]

--------------------------------------------------------------------------
\* update_cluster_status, create and update path: lines 77-118.  The pass is
\* computed as the set of its outcomes over what the reloads may return; an
\* outcome holds the records the pass leaves behind and what it read.

Pass(how, error, read, polled) ==
    [op |-> "update_cluster_status", outcome |-> how, error |-> error,
     read |-> read, polled |-> polled]

Outcome(cl, db, ngs, ngs_db, how, error, read, polled) ==
    [cluster |-> cl, cluster_db |-> db, nodegroups |-> ngs, nodegroups_db |-> ngs_db,
     last |-> Pass(how, error, read, polled)]

\* A check that takes any listed ControlPlaneReady condition for readiness
ControlPlaneReady_if_listed(status_map) == "ControlPlaneReady" \in DOMAIN status_map

\* A check that waits only on a ControlPlaneReady listed as "False"
ControlPlaneReady_unless_false(status_map) ==
    Get(status_map, "ControlPlaneReady", None) # "False"

\* line 94
ControlPlaneReady(status_map) == Get(status_map, "ControlPlaneReady", None) = "True"

\* line 101
halts(status) == status # CREATE_COMPLETE

\* An advance that knows UPDATE_IN_PROGRESS alone
advance_update_only(status) ==
    IF status = UPDATE_IN_PROGRESS THEN UPDATE_COMPLETE ELSE status

\* An advance with the two COMPLETE statuses taken one for the other
advance_swapped(status) ==
    IF status = CREATE_IN_PROGRESS THEN UPDATE_COMPLETE
    ELSE IF status = UPDATE_IN_PROGRESS THEN CREATE_COMPLETE ELSE status

\* lines 112-116
advance(status) ==
    LET s1 == IF status = CREATE_IN_PROGRESS THEN CREATE_COMPLETE ELSE status
    IN IF s1 = UPDATE_IN_PROGRESS THEN UPDATE_COMPLETE ELSE s1

Polled(i, doc, version) == [nodegroup |-> i, doc |-> doc, version |-> version]

\* lines 99-118: the loop from node group i on, then the advance and the save
RECURSIVE poll_from(_, _, _, _, _, _)
poll_from(i, cl, ngs, ngs_db, read, polled) ==
    IF i > Len(roles)
    THEN LET saved == [cl EXCEPT !.status = advance(cl.status)]
         IN {Outcome(saved, saved, ngs, ngs_db, "saved", None, read, polled)}
    ELSE UNION {
        LET r == update_nodegroup_status(i, ngs[i], doc, k8s)
            ngs2 == [ngs EXCEPT ![i] = r.nodegroup]
            ngs_db2 == [ngs_db EXCEPT ![i] = r.nodegroup]
            p2 == Append(polled, Polled(i, doc, None))
        IN IF r.raised
           THEN {Outcome(cl, cluster_db, ngs, ngs_db, "raised", "reload", read, p2)}
           ELSE IF halts(r.nodegroup.status)
           THEN {Outcome(cl, cluster_db, ngs2, ngs_db2, "halted", None, read, p2)}
           ELSE IF roles[i] = "master"
           THEN UNION {poll_from(i + 1, [cl EXCEPT !.coe_version = v], ngs2, ngs_db2, read,
                                 Append(polled, Polled(i, doc, v))) : v \in Versions}
           ELSE poll_from(i + 1, cl, ngs2, ngs_db2, read, p2)
        : doc \in StatusDocs(i)}

Unchanged(how, error, read) ==
    Outcome(cluster, cluster_db, nodegroups, nodegroups_db, how, error, read, << >>)

\* lines 81-118
create_update_path ==
    IF Cluster \notin k8s
    THEN {Unchanged("raised", "reload", << >>)}
    ELSE UNION {
        IF "conditions" \notin DOMAIN doc
        THEN {Unchanged("raised", "KeyError", <<doc>>)}
        ELSE IF ~ControlPlaneReady(StatusMap(doc.conditions))
        THEN {Unchanged("waiting", None, <<doc>>)}
        ELSE poll_from(1, [cluster EXCEPT !.api_address = ApiAddress(controlPlaneEndpoint)],
                       nodegroups, nodegroups_db, <<doc>>, << >>)
        : doc \in ClusterStatusDocs}

\* An exists() that never finds the object
exists_never(objs, res) == FALSE

\* line 121: capi_cluster.exists()
exists(objs, res) == res \in objs

\* lines 126-132: find(name=cluster.uuid, user=cluster.user_id).delete().  find()
\* raises NotFound when there is no such credential, and the handler passes it;
\* keystone: the backend fails otherwise, and the error is the caller's
revoke_not_found_raises(credentials, keystone) ==
    IF keystone \/ ApplicationCredential \notin credentials
    THEN [raised |-> TRUE, calls |-> << >>]
    ELSE [raised |-> FALSE, calls |-> <<Call("revoke", ApplicationCredential)>>]

revoke(credentials, keystone) ==
    IF keystone THEN [raised |-> TRUE, calls |-> << >>]
    ELSE IF ApplicationCredential \in credentials
    THEN [raised |-> FALSE, calls |-> <<Call("revoke", ApplicationCredential)>>]
    ELSE [raised |-> FALSE, calls |-> << >>]

--------------------------------------------------------------------------
\* The state after construction: the caller has made the cluster record and its
\* node groups; nothing has been applied and no credential issued.

Roles == {"master", "worker"}
NetworkDrivers == {"calico", "flannel"}

Invocation(op, how, error) ==
    [op |-> op, outcome |-> how, error |-> error, read |-> << >>, polled |-> << >>]

Constructed ==
    /\ network_driver \in NetworkDrivers
    /\ roles \in UNION {[1..n -> Roles] : n \in 1..MaxGroups}
    /\ cluster = [status |-> CREATE_IN_PROGRESS, api_address |-> << >>, coe_version |-> None]
    /\ cluster_db = cluster
    /\ nodegroups = [i \in DOMAIN roles |-> [status |-> CREATE_IN_PROGRESS, status_reason |-> None]]
    /\ nodegroups_db = nodegroups
    /\ k8s = {}
    /\ teardown = FALSE
    /\ creds = {}
    /\ calls = << >>
    /\ last = Invocation("none", None, None)
    /\ history = [only_creates |-> TRUE, ready_seen |-> FALSE]

Phase == {IN_PROGRESS, COMPLETE, FAILED}
Statuses == {Join(a, p) : a \in Actions, p \in Phase}

\* A cluster that create_cluster has returned from, in any status the caller
\* polls, its node groups in any status
Polling ==
    /\ network_driver = "calico"
    /\ roles \in UNION {[1..n -> Roles] : n \in 1..MaxGroups}
    /\ cluster \in [status : {CREATE_IN_PROGRESS, UPDATE_IN_PROGRESS, DELETE_IN_PROGRESS},
                     api_address : {<< >>}, coe_version : {None}]
    /\ cluster_db = cluster
    /\ nodegroups \in [DOMAIN roles -> [status : Statuses, status_reason : {None}]]
    /\ nodegroups_db = nodegroups
    /\ k8s = Run(create_cluster_calls, [k8s |-> {}, teardown |-> FALSE, creds |-> {}]).k8s
    /\ teardown = FALSE
    /\ creds = {ApplicationCredential}
    /\ calls = << >>
    /\ last = Invocation("none", None, None)
    /\ history = [only_creates |-> FALSE, ready_seen |-> FALSE]

\* The facade answers every call
Init == Constructed /\ faults = 0

\* The facade fails up to MaxFaults calls
InitFaults == Constructed /\ faults = MaxFaults

--------------------------------------------------------------------------
\* The entry points

\* create_cluster: lines 38-69.  n: the calls that complete before the facade
\* fails one (all of them: it fails none).  Keystone keeps the name of an
\* application credential unique per user: create() of a name that exists
\* raises Conflict.
create_cluster ==
    LET all == create_cluster_calls
        at == Position(all, Call("create", ApplicationCredential))
    IN \E n \in 0..Len(all) :
        LET conflict == n >= at /\ ApplicationCredential \in creds
            done == SubSeq(all, 1, IF conflict THEN at - 1 ELSE n)
            fault == ~conflict /\ n < Len(all)
            after == Run(done, World)
        IN /\ fault => faults > 0
           /\ faults' = IF fault THEN faults - 1 ELSE faults
           /\ k8s' = after.k8s
           /\ teardown' = after.teardown
           /\ creds' = after.creds
           /\ calls' = done
           /\ last' = Invocation("create_cluster",
                                 IF Len(done) = Len(all) THEN "returned" ELSE "raised",
                                 IF conflict THEN "Conflict"
                                 ELSE IF fault THEN "facade" ELSE None)
           /\ UNCHANGED <<network_driver, roles, cluster, cluster_db, nodegroups,
                          nodegroups_db, history>>

\* update_nodegroup_status as an entry point: lines 206-238
reconcile_nodegroup_status ==
    \E i \in DOMAIN roles : \E doc \in StatusDocs(i) :
        LET r == update_nodegroup_status(i, nodegroups[i], doc, k8s)
        IN /\ nodegroups' = [nodegroups EXCEPT ![i] = r.nodegroup]
           /\ nodegroups_db' = IF r.raised THEN nodegroups_db
                               ELSE [nodegroups_db EXCEPT ![i] = r.nodegroup]
           /\ calls' = << >>
           /\ last' = [op |-> "update_nodegroup_status",
                       outcome |-> IF r.raised THEN "raised" ELSE "returned",
                       error |-> IF r.raised THEN "reload" ELSE None,
                       read |-> << >>, polled |-> <<Polled(i, doc, None)>>]
           /\ history' = [history EXCEPT !.only_creates = FALSE]
           /\ UNCHANGED <<network_driver, roles, cluster, cluster_db, k8s, teardown, creds,
                          faults>>

\* delete_cluster: lines 169-176
delete_cluster ==
    LET done == delete_cluster_calls
        after == Run(done, World)
    IN /\ k8s' = after.k8s
       /\ teardown' = after.teardown
       /\ creds' = after.creds
       /\ calls' = done
       /\ last' = Invocation("delete_cluster", "returned", None)
       /\ history' = [history EXCEPT !.only_creates = FALSE]
       /\ UNCHANGED <<network_driver, roles, cluster, cluster_db, nodegroups,
                      nodegroups_db, faults>>

\* What the pass saw of the top-level Cluster object: one of the documents it
\* read lists the condition ControlPlaneReady with status "True"
ObservedReady(read) ==
    \E j \in DOMAIN read :
        /\ "conditions" \in DOMAIN read[j]
        /\ \E k \in DOMAIN read[j].conditions :
              read[j].conditions[k] = Condition("ControlPlaneReady", "True")

\* update_cluster_status, lines 77-118: cluster.status is CREATE_IN_PROGRESS or
\* UPDATE_IN_PROGRESS
update_cluster_status_in_progress ==
    /\ cluster.status \in {CREATE_IN_PROGRESS, UPDATE_IN_PROGRESS}
    /\ \E out \in create_update_path :
        /\ cluster' = out.cluster
        /\ cluster_db' = out.cluster_db
        /\ nodegroups' = out.nodegroups
        /\ nodegroups_db' = out.nodegroups_db
        /\ calls' = << >>
        /\ last' = out.last
        /\ history' = [history EXCEPT
                         !.only_creates = FALSE,
                         !.ready_seen = @ \/ ObservedReady(out.last.read)]
    /\ UNCHANGED <<network_driver, roles, k8s, teardown, creds, faults>>

\* update_cluster_status, lines 120-141: cluster.status is DELETE_IN_PROGRESS.
\* keystone: find() or delete() fails, and not with NotFound
update_cluster_status_delete ==
    /\ cluster.status = DELETE_IN_PROGRESS
    /\ IF exists(k8s, Cluster)
       THEN /\ calls' = << >>
            /\ last' = Pass("exists", None, << >>, << >>)
            /\ UNCHANGED <<cluster, cluster_db, k8s, teardown, creds>>
       ELSE \E keystone \in BOOLEAN :
            LET revoked == revoke(creds, keystone)
                done == IF revoked.raised THEN revoked.calls
                        ELSE revoked.calls \o delete_secrets_calls
                after == Run(done, World)
            IN /\ cluster' = IF revoked.raised THEN cluster
                             ELSE [cluster EXCEPT !.status = DELETE_COMPLETE]
               /\ cluster_db' = IF revoked.raised THEN cluster_db ELSE cluster'
               /\ k8s' = after.k8s
               /\ teardown' = after.teardown
               /\ creds' = after.creds
               /\ calls' = done
               /\ last' = Pass(IF revoked.raised THEN "raised" ELSE "saved",
                               IF keystone THEN "keystone"
                               ELSE IF revoked.raised THEN "NotFound" ELSE None,
                               << >>, << >>)
    /\ history' = [history EXCEPT !.only_creates = FALSE]
    /\ UNCHANGED <<network_driver, roles, nodegroups, nodegroups_db, faults>>

\* update_cluster_status with any other cluster.status: neither block is entered
update_cluster_status_other ==
    /\ cluster.status \notin {CREATE_IN_PROGRESS, UPDATE_IN_PROGRESS, DELETE_IN_PROGRESS}
    /\ calls' = << >>
    /\ last' = Pass("noop", None, << >>, << >>)
    /\ history' = [history EXCEPT !.only_creates = FALSE]
    /\ UNCHANGED <<network_driver, roles, cluster, cluster_db, nodegroups, nodegroups_db,
                   k8s, teardown, creds, faults>>

\* update_cluster_status: lines 71-141
update_cluster_status ==
    \/ update_cluster_status_in_progress
    \/ update_cluster_status_delete
    \/ update_cluster_status_other

\* The external reconciler finishes the teardown of the top-level Cluster object
external_reconciler ==
    /\ teardown
    /\ k8s' = k8s \ {Cluster}
    /\ teardown' = FALSE
    /\ calls' = << >>
    /\ last' = Invocation("external_reconciler", None, None)
    /\ history' = [history EXCEPT !.only_creates = FALSE]
    /\ UNCHANGED <<network_driver, roles, cluster, cluster_db, nodegroups, nodegroups_db,
                   creds, faults>>

\* The caller asks for the deletion: once delete_cluster has been called, the
\* cluster record is marked DELETE_IN_PROGRESS
caller_marks_delete ==
    /\ last.op = "delete_cluster"
    /\ cluster.status # DELETE_IN_PROGRESS
    /\ cluster' = [cluster EXCEPT !.status = DELETE_IN_PROGRESS]
    /\ cluster_db' = [cluster_db EXCEPT !.status = DELETE_IN_PROGRESS]
    /\ calls' = << >>
    /\ last' = Invocation("caller_marks_delete", None, None)
    /\ UNCHANGED <<network_driver, roles, nodegroups, nodegroups_db, k8s, teardown, creds,
                   faults, history>>

Next ==
    \/ create_cluster
    \/ delete_cluster
    \/ update_cluster_status
    \/ external_reconciler
    \/ caller_marks_delete

Spec == Init /\ [][Next]_vars

SpecFaults == InitFaults /\ [][Next]_vars

\* The status polls alone, from any status
InitStatus == Polling /\ faults = 0

NextStatus ==
    \/ update_cluster_status
    \/ reconcile_nodegroup_status

SpecStatus == InitStatus /\ [][NextStatus]_vars

--------------------------------------------------------------------------
\* Vocabulary of the properties

\* call a comes before call b in cs, whenever b is in cs
Precedes(cs, a, b) ==
    \A j \in DOMAIN cs : cs[j] = b => \E k \in 1..(j - 1) : cs[k] = a

Count(cs, c) == Cardinality({j \in DOMAIN cs : cs[j] = c})

Masters == {i \in DOMAIN roles : roles[i] = "master"}
Workers == {i \in DOMAIN roles : roles[i] = "worker"}

Secrets == {CloudConfigSecret} \cup CertificateAuthoritySecrets

\* The objects one successful create_cluster leaves behind
Provisioned ==
    {Namespace, CloudControllerManagerConfigMap, CloudControllerManagerClusterResourceSet,
     OpenStackCluster, Cluster} \cup Secrets
    \cup (IF network_driver = "calico"
          THEN {CalicoConfigMap, CalicoClusterResourceSet} ELSE {})
    \cup {OpenStackMachineTemplate(i) : i \in DOMAIN roles}
    \cup {KubeadmControlPlane(i) : i \in Masters}
    \cup {MachineDeployment(i) : i \in Workers}
    \cup (IF Workers = {} THEN {} ELSE {KubeadmConfigTemplate})

\* C1: in the calls of one create_cluster invocation, the Namespace apply comes
\* before every secret apply, the credential is issued before the
\* CloudConfigSecret apply, the four Certificate-Authority secrets and every
\* node group's applies come before the OpenStackCluster apply, and that one
\* before the Cluster apply.
C1_CreateOrder ==
    last.op = "create_cluster" =>
        /\ \A s \in Secrets : Precedes(calls, Call("apply", Namespace), Call("apply", s))
        /\ Precedes(calls, Call("create", ApplicationCredential), Call("apply", CloudConfigSecret))
        /\ \A s \in CertificateAuthoritySecrets :
              Precedes(calls, Call("apply", s), Call("apply", OpenStackCluster))
        /\ \A i \in DOMAIN roles :
              /\ Precedes(calls, Call("apply", OpenStackMachineTemplate(i)),
                          Call("apply", OpenStackCluster))
              /\ i \in Masters => Precedes(calls, Call("apply", KubeadmControlPlane(i)),
                                           Call("apply", OpenStackCluster))
              /\ i \in Workers => Precedes(calls, Call("apply", MachineDeployment(i)),
                                           Call("apply", OpenStackCluster))
        /\ Precedes(calls, Call("apply", OpenStackCluster), Call("apply", Cluster))

\* A create_cluster that returned, for a cluster with a master and a worker
C1_Witness ==
    /\ last.op = "create_cluster"
    /\ last.outcome = "returned"
    /\ Masters # {} /\ Workers # {}
    /\ calls[Len(calls)] = Call("apply", Cluster)

\* C2: create_cluster is idempotent.  After a create_cluster that the facade did
\* not fail, called when nothing but create_cluster has run before (once, or
\* again after an invocation that failed at some step), the external resources
\* are those of one successful invocation, the credential named by the cluster
\* UUID among them, and cluster.status is what it was.
C2_CreateIdempotent ==
    (history.only_creates /\ last.op = "create_cluster" /\ last.error # "facade") =>
        /\ k8s = Provisioned
        /\ creds = {ApplicationCredential}
        /\ cluster.status = CREATE_IN_PROGRESS
        /\ cluster_db.status = CREATE_IN_PROGRESS

\* C9: one successful create_cluster issues one credential, applies the two CNI
\* resources once each with calico and not at all otherwise, provisions every
\* node group once, and applies the shared KubeadmConfigTemplate once however
\* many worker groups there are.
C9_CreateCounts ==
    (last.op = "create_cluster" /\ last.outcome = "returned") =>
        /\ Count(calls, Call("create", ApplicationCredential)) = 1
        /\ \A r \in {CalicoConfigMap, CalicoClusterResourceSet} :
              Count(calls, Call("apply", r)) = IF network_driver = "calico" THEN 1 ELSE 0
        /\ \A i \in DOMAIN roles : Count(calls, Call("apply", OpenStackMachineTemplate(i))) = 1
        /\ \A i \in Masters : Count(calls, Call("apply", KubeadmControlPlane(i))) = 1
        /\ \A i \in Workers : Count(calls, Call("apply", MachineDeployment(i))) = 1
        /\ Workers # {} => Count(calls, Call("apply", KubeadmConfigTemplate)) = 1

\* The step is a pass of update_cluster_status
IsPass == last'.op = "update_cluster_status"

\* The documents the step delivered to the polls of node group i
PolledDocs(i) ==
    {last'.polled[j].doc : j \in {k \in DOMAIN last'.polled : last'.polled[k].nodegroup = i}}

PolledGroups == {last'.polled[j].nodegroup : j \in DOMAIN last'.polled}

\* C3: for a cluster in CREATE_IN_PROGRESS or UPDATE_IN_PROGRESS, a pass that
\* polls a master whose KubeadmControlPlane reports ready = false (or no ready
\* at all) leaves cluster.api_address and cluster.status as they were.
C3_MasterNotReadyHalts ==
    [][(/\ cluster.status \in {CREATE_IN_PROGRESS, UPDATE_IN_PROGRESS}
        /\ IsPass
        /\ \E i \in Masters : \E doc \in PolledDocs(i) : ~Get(doc, "ready", FALSE))
       => /\ cluster'.api_address = cluster.api_address
          /\ cluster'.status = cluster.status]_vars

\* C4: for a cluster in CREATE_IN_PROGRESS whose node groups all have a CREATE
\* status, a pass that reads ControlPlaneReady "True", ready = true from every
\* master and phase Running from every worker polls every node group, sets each
\* to CREATE_COMPLETE, sets api_address from controlPlaneEndpoint, coe_version
\* from the version of the control plane, cluster.status to CREATE_COMPLETE, and
\* saves the cluster and the node groups.
C4_CreateCompletes ==
    [][(/\ cluster.status = CREATE_IN_PROGRESS
        /\ \A i \in DOMAIN roles : ActionOf(nodegroups[i].status) = "CREATE"
        /\ IsPass
        /\ ObservedReady(last'.read)
        /\ \A i \in Masters : \A doc \in PolledDocs(i) : Get(doc, "ready", FALSE)
        /\ \A i \in Workers : \A doc \in PolledDocs(i) : Get(doc, "phase", None) = "Running")
       => /\ PolledGroups = DOMAIN roles
          /\ \A i \in DOMAIN roles : nodegroups'[i].status = CREATE_COMPLETE
          /\ nodegroups_db' = nodegroups'
          /\ cluster'.api_address = <<"https://", "192.0.2.10", ":", "6443">>
          /\ Masters # {} =>
                LET m == CHOOSE i \in Masters : \A k \in Masters : k <= i
                IN \E j \in DOMAIN last'.polled :
                      /\ last'.polled[j].nodegroup = m
                      /\ last'.polled[j].version \in Versions
                      /\ cluster'.coe_version = last'.polled[j].version
          /\ cluster'.status = CREATE_COMPLETE
          /\ cluster_db' = cluster']_vars

C4_Witness ==
    /\ last.op = "update_cluster_status" /\ last.outcome = "saved"
    /\ Masters # {} /\ Workers # {}
    /\ Len(last.polled) = Len(roles)
    /\ \A j \in DOMAIN last.polled :
          LET doc == last.polled[j].doc
          IN IF roles[last.polled[j].nodegroup] = "master"
             THEN Get(doc, "ready", FALSE) ELSE Get(doc, "phase", None) = "Running"
    /\ \A i \in DOMAIN roles : nodegroups[i].status = CREATE_COMPLETE
    /\ cluster_db.status = CREATE_COMPLETE
    /\ cluster_db.coe_version \in Versions

\* C5: for a cluster in UPDATE_IN_PROGRESS, a pass that reads ControlPlaneReady
\* "True" and whose polls leave every node group it polls in the COMPLETE status
\* of that group's own action sets cluster.status to UPDATE_COMPLETE and saves
\* it: the pass halts only on a group that is not <action>_COMPLETE.
C5_UpdateCompletes ==
    [][(/\ cluster.status = UPDATE_IN_PROGRESS
        /\ IsPass
        /\ ObservedReady(last'.read)
        /\ last'.outcome # "raised"
        /\ \A i \in PolledGroups :
              nodegroups'[i].status = <<ActionOf(nodegroups[i].status), "COMPLETE">>)
       => /\ cluster'.status = UPDATE_COMPLETE
          /\ cluster_db' = cluster']_vars

\* The table of the worker phases
PhaseTable ==
    [ScalingUp |-> <<"IN", "PROGRESS">>, ScalingDown |-> <<"IN", "PROGRESS">>,
     Running |-> <<"COMPLETE">>, Failed |-> <<"FAILED">>, Unknown |-> <<"FAILED">>]

\* C6: a poll of a worker in status <action>_<phase> that reads a phase leaves
\* <action>_IN_PROGRESS for ScalingUp and ScalingDown, <action>_COMPLETE for
\* Running, <action>_FAILED for Failed and Unknown and the status as it was for
\* any other value, <action> being the prefix of the status before the poll, and
\* the node group is saved with that status.
C6_WorkerPhaseTable ==
    [][\A i \in Workers : \A doc \in PolledDocs(i) :
          "phase" \in DOMAIN doc =>
             /\ nodegroups'[i].status =
                   IF doc.phase \in DOMAIN PhaseTable
                   THEN <<nodegroups[i].status[1]>> \o PhaseTable[doc.phase]
                   ELSE nodegroups[i].status
             /\ nodegroups'[i].status_reason = nodegroups[i].status_reason
             /\ nodegroups_db'[i] = nodegroups'[i]]_vars

C6_Witness ==
    /\ last.op = "update_nodegroup_status" /\ last.outcome = "returned"
    /\ \E i \in Workers :
          /\ last.polled = <<Polled(i, [phase |-> "Unknown"], None)>>
          /\ nodegroups[i].status = <<"DELETE", "FAILED">>
          /\ nodegroups_db[i] = nodegroups[i]

\* The calls of cs that revoke the credential or delete one of the five secrets
Removals(cs) ==
    {j \in DOMAIN cs : \/ cs[j].op = "revoke"
                       \/ cs[j].op = "delete" /\ cs[j].res \in Secrets}

\* C7: while the top-level Cluster object exists, a pass on a cluster in
\* DELETE_IN_PROGRESS revokes no credential, deletes no secret and leaves the
\* cluster as it is; delete_cluster revokes no credential and deletes no secret;
\* so a credential is revoked or a secret deleted only by a pass on a cluster in
\* DELETE_IN_PROGRESS that finds the Cluster object absent.
C7_DeleteWaits ==
    [][/\ (IsPass /\ cluster.status = DELETE_IN_PROGRESS /\ Cluster \in k8s) =>
             /\ Removals(calls') = {}
             /\ creds' = creds /\ k8s' = k8s
             /\ cluster' = cluster /\ cluster_db' = cluster_db
             /\ cluster'.status = DELETE_IN_PROGRESS
       /\ last'.op = "delete_cluster" =>
             /\ Removals(calls') = {}
             /\ creds' = creds
             /\ k8s' \cap Secrets = k8s \cap Secrets
       /\ (Removals(calls') # {} \/ creds \ creds' # {} \/ (k8s \cap Secrets) \ k8s' # {}) =>
             /\ IsPass
             /\ cluster.status = DELETE_IN_PROGRESS
             /\ Cluster \notin k8s]_vars

C7_Witness ==
    /\ last.op = "update_cluster_status" /\ last.outcome = "exists"
    /\ cluster.status = DELETE_IN_PROGRESS
    /\ teardown
    /\ creds = {ApplicationCredential}
    /\ Secrets \subseteq k8s

C10_ReadyBeforeSet ==
    /\ []((\E c \in {cluster, cluster_db} : c.api_address # << >> \/ c.coe_version # None)
              => history.ready_seen)
    /\ [][(IsPass /\ last'.read # << >> /\ ~ObservedReady(last'.read)) =>
             /\ cluster' = cluster /\ cluster_db' = cluster_db
             /\ nodegroups' = nodegroups /\ nodegroups_db' = nodegroups_db
             /\ last'.polled = << >>]_vars

C10_Witness ==
    /\ last.op = "update_cluster_status" /\ last.outcome = "waiting"
    /\ last.read # << >>
    /\ history.ready_seen
    /\ cluster.api_address # << >>
    /\ cluster.coe_version # None

--------------------------------------------------------------------------
\* The entry points left to subclasses: lines 143-167, 178-185, 240-241

Unimplemented ==
    {"update_cluster", "resize_cluster", "upgrade_cluster",
     "create_federation", "update_federation", "delete_federation",
     "update_nodegroup"}

\* An update_nodegroup that applies the node group's MachineDeployment
not_implemented_but_update_nodegroup(op) ==
    IF op = "update_nodegroup"
    THEN [raised |-> FALSE, error |-> None, calls |-> <<Call("apply", MachineDeployment(1))>>]
    ELSE [raised |-> TRUE, error |-> "NotImplementedError", calls |-> << >>]

\* raise NotImplementedError(...), the whole body of each
not_implemented(op) ==
    [raised |-> TRUE, error |-> "NotImplementedError", calls |-> << >>]

unimplemented ==
    \E op \in Unimplemented :
        LET r == not_implemented(op)
            after == Run(r.calls, World)
        IN /\ k8s' = after.k8s
           /\ teardown' = after.teardown
           /\ creds' = after.creds
           /\ calls' = r.calls
           /\ last' = Invocation(op, IF r.raised THEN "raised" ELSE "returned", r.error)
           /\ history' = [history EXCEPT !.only_creates = FALSE]
           /\ UNCHANGED <<network_driver, roles, cluster, cluster_db, nodegroups,
                          nodegroups_db, faults>>

NextUnimplemented ==
    \/ create_cluster
    \/ delete_cluster
    \/ unimplemented

\* create_cluster, delete_cluster and the unimplemented entry points
SpecUnimplemented == Init /\ [][NextUnimplemented]_vars

\* C11: each of the seven unimplemented entry points raises the
\* not-implemented error and has no effect: it makes no call on the facade or
\* on the credential backend, and leaves the external resources, the
\* credentials, the cluster and the node groups as they were.
C11_UnimplementedRaises ==
    [][last'.op \in {"resize_cluster", "update_cluster", "upgrade_cluster",
                     "create_federation", "update_federation", "delete_federation",
                     "update_nodegroup"} =>
          /\ last'.outcome = "raised"
          /\ last'.error = "NotImplementedError"
          /\ calls' = << >>
          /\ k8s' = k8s /\ teardown' = teardown /\ creds' = creds
          /\ cluster' = cluster /\ cluster_db' = cluster_db
          /\ nodegroups' = nodegroups /\ nodegroups_db' = nodegroups_db]_vars

C11_Witness ==
    /\ last.op = "update_nodegroup" /\ last.outcome = "raised"
    /\ k8s = Provisioned
    /\ creds = {ApplicationCredential}

\* C12: a poll of a master in status <action>_<phase> leaves <action>_COMPLETE
\* when the KubeadmControlPlane reports ready = true and the status as it was
\* otherwise, failureMessage or not, so never a FAILED the master did not have;
\* status_reason becomes the failureMessage, or nothing when there is none; and
\* the node group is saved so.
C12_MasterPoll ==
    [][\A i \in Masters : \A doc \in PolledDocs(i) :
          /\ nodegroups'[i].status =
                IF "ready" \in DOMAIN doc /\ doc.ready
                THEN <<nodegroups[i].status[1], "COMPLETE">>
                ELSE nodegroups[i].status
          /\ nodegroups'[i].status \in {<<a, "FAILED">> : a \in Actions} =>
                nodegroups[i].status = nodegroups'[i].status
          /\ nodegroups'[i].status_reason =
                IF "failureMessage" \in DOMAIN doc THEN doc.failureMessage ELSE "None"
          /\ nodegroups_db'[i] = nodegroups'[i]]_vars

C12_Witness ==
    /\ last.op = "update_nodegroup_status" /\ last.outcome = "returned"
    /\ \E i \in Masters :
          /\ last.polled = <<Polled(i, [ready |-> FALSE, failureMessage |-> "boom"], None)>>
          /\ nodegroups[i] = [status |-> <<"UPDATE", "IN", "PROGRESS">>, status_reason |-> "boom"]
          /\ nodegroups_db[i] = nodegroups[i]

\* The statuses <action>_FAILED
Failures == {<<a, "FAILED">> : a \in {"CREATE", "UPDATE", "DELETE"}}

\* C13: a reported failure, phase Failed or Unknown of a MachineDeployment or a
\* failureMessage of a KubeadmControlPlane, leaves the node group polled in
\* <action>_FAILED, with the message as status_reason where there is one, and
\* the poll does not raise.
C13_FailuresReflected ==
    [][/\ \A i \in Workers : \A doc \in PolledDocs(i) :
             ("phase" \in DOMAIN doc /\ doc.phase \in {"Failed", "Unknown"}) =>
                 /\ nodegroups'[i].status = <<nodegroups[i].status[1], "FAILED">>
                 /\ nodegroups_db'[i] = nodegroups'[i]
       /\ \A i \in Masters : \A doc \in PolledDocs(i) :
             "failureMessage" \in DOMAIN doc =>
                 /\ nodegroups'[i].status = <<nodegroups[i].status[1], "FAILED">>
                 /\ nodegroups'[i].status_reason = doc.failureMessage
                 /\ nodegroups_db'[i] = nodegroups'[i]]_vars

\* C13, amended: phase Failed or Unknown leaves the worker polled in
\* <action>_FAILED, its status_reason as it was; a failureMessage becomes the
\* status_reason of the master polled, whose status is <action>_COMPLETE if
\* ready is true and as it was otherwise; in both cases the poll returns and
\* the node group is saved; and no pass leaves the cluster in a FAILED status.
C13_FailuresAsPolled ==
    [][/\ \A i \in Workers : \A doc \in PolledDocs(i) :
             ("phase" \in DOMAIN doc /\ doc.phase \in {"Failed", "Unknown"}) =>
                 /\ nodegroups'[i].status = <<nodegroups[i].status[1], "FAILED">>
                 /\ nodegroups'[i].status_reason = nodegroups[i].status_reason
                 /\ nodegroups_db'[i] = nodegroups'[i]
                 /\ last'.op = "update_nodegroup_status" => last'.outcome = "returned"
                 /\ IsPass => last'.outcome = "halted"
       /\ \A i \in Masters : \A doc \in PolledDocs(i) :
             "failureMessage" \in DOMAIN doc =>
                 /\ nodegroups'[i].status_reason = doc.failureMessage
                 /\ nodegroups'[i].status =
                       IF Get(doc, "ready", FALSE)
                       THEN <<nodegroups[i].status[1], "COMPLETE">>
                       ELSE nodegroups[i].status
                 /\ nodegroups_db'[i] = nodegroups'[i]
                 /\ last'.op = "update_nodegroup_status" => last'.outcome = "returned"
       /\ IsPass => cluster'.status \notin Failures /\ cluster_db'.status \notin Failures]_vars

C13_Witness ==
    /\ last.op = "update_cluster_status" /\ last.outcome = "halted"
    /\ Len(last.polled) = 2
    /\ roles[last.polled[1].nodegroup] = "master"
    /\ last.polled[1].doc = [ready |-> TRUE, failureMessage |-> "boom"]
    /\ nodegroups[last.polled[1].nodegroup] =
          [status |-> <<"CREATE", "COMPLETE">>, status_reason |-> "boom"]
    /\ roles[last.polled[2].nodegroup] = "worker"
    /\ last.polled[2].doc = [phase |-> "Failed"]
    /\ nodegroups[last.polled[2].nodegroup].status = <<"CREATE", "FAILED">>
    /\ cluster.status = <<"CREATE", "IN", "PROGRESS">>

\* The step read the status of the top-level Cluster object, and no condition
\* of type ControlPlaneReady is in it
NoReadyCondition ==
    /\ IsPass
    /\ last'.read # << >>
    /\ \A j \in DOMAIN last'.read :
          \/ "conditions" \notin DOMAIN last'.read[j]
          \/ \A k \in DOMAIN last'.read[j].conditions :
                last'.read[j].conditions[k].type # "ControlPlaneReady"

\* C14: a MachineDeployment status without a phase, or with a phase outside
\* the five of the enumeration, and a Cluster status without a ControlPlaneReady
\* condition make the poll or the pass raise: it never returns as if the object
\* were still in progress.
C14_MalformedSurfaced ==
    [][/\ \A i \in Workers : \A doc \in PolledDocs(i) :
             ("phase" \notin DOMAIN doc \/
              doc.phase \notin {"ScalingUp", "ScalingDown", "Running", "Failed", "Unknown"})
                 => last'.outcome = "raised"
       /\ NoReadyCondition => last'.outcome = "raised"]_vars

\* C14, amended: a MachineDeployment status without a phase makes the poll
\* raise, and a Cluster status without conditions makes the pass raise, the
\* node group or the cluster left as it was; a phase outside the enumeration
\* makes the poll return with the status unchanged and saved; conditions
\* without ControlPlaneReady make the pass return with nothing changed and no
\* node group polled.
C14_MalformedAsHandled ==
    [][/\ \A i \in Workers : \A doc \in PolledDocs(i) :
             IF "phase" \notin DOMAIN doc
             THEN /\ last'.outcome = "raised"
                  /\ nodegroups'[i] = nodegroups[i]
                  /\ nodegroups_db'[i] = nodegroups_db[i]
                  /\ cluster_db' = cluster_db
             ELSE doc.phase \notin {"ScalingUp", "ScalingDown", "Running", "Failed", "Unknown"} =>
                  /\ nodegroups'[i] = nodegroups[i]
                  /\ nodegroups_db'[i] = nodegroups[i]
                  /\ last'.op = "update_nodegroup_status" => last'.outcome = "returned"
       /\ NoReadyCondition =>
             /\ last'.outcome =
                   IF \E j \in DOMAIN last'.read : "conditions" \notin DOMAIN last'.read[j]
                   THEN "raised" ELSE "waiting"
             /\ last'.polled = << >>
             /\ cluster' = cluster /\ cluster_db' = cluster_db
             /\ nodegroups' = nodegroups /\ nodegroups_db' = nodegroups_db]_vars

C14_Witness ==
    /\ last.op = "update_cluster_status" /\ last.outcome = "raised"
    /\ Len(last.polled) = 2
    /\ roles[last.polled[1].nodegroup] = "worker"
    /\ last.polled[1].doc = [phase |-> "Running"]
    /\ roles[last.polled[2].nodegroup] = "worker"
    /\ last.polled[2].doc = << >>
    /\ nodegroups_db[last.polled[1].nodegroup].status = <<"CREATE", "COMPLETE">>
    /\ nodegroups_db[last.polled[2].nodegroup].status = <<"CREATE", "IN", "PROGRESS">>

\* The calls that end the teardown of a node group, and the two before them
GroupEnds == {Call("delete", OpenStackMachineTemplate(i)) : i \in DOMAIN roles}
GroupStart == {Call("delete", OpenStackCluster)} \cup GroupEnds

\* C15: delete_cluster deletes the Cluster object first, the OpenStackCluster
\* second, and then tears down the node groups one by one: a master's
\* KubeadmControlPlane and nothing else, a worker's MachineDeployment and then
\* the KubeadmConfigTemplate, and in both cases the node group's
\* OpenStackMachineTemplate last.
C15_DeleteOrder ==
    last.op = "delete_cluster" =>
        /\ Len(calls) >= 2
        /\ calls[1] = Call("delete", Cluster)
        /\ calls[2] = Call("delete", OpenStackCluster)
        /\ \A j \in DOMAIN calls : calls[j].op = "delete"
        /\ \A j \in DOMAIN calls : j > 2 => calls[j] \notin {calls[1], calls[2]}
        /\ \A i \in DOMAIN roles :
              Count(calls, Call("delete", OpenStackMachineTemplate(i))) = 1
        /\ \A i \in Masters : \A j \in DOMAIN calls :
              /\ calls[j] # Call("delete", MachineDeployment(i))
              /\ calls[j] = Call("delete", OpenStackMachineTemplate(i)) =>
                    /\ calls[j - 1] = Call("delete", KubeadmControlPlane(i))
                    /\ calls[j - 2] \in GroupStart
        /\ \A i \in Workers : \A j \in DOMAIN calls :
              /\ calls[j] # Call("delete", KubeadmControlPlane(i))
              /\ calls[j] = Call("delete", OpenStackMachineTemplate(i)) =>
                    /\ calls[j - 1] = Call("delete", KubeadmConfigTemplate)
                    /\ calls[j - 2] = Call("delete", MachineDeployment(i))
                    /\ calls[j - 3] \in GroupStart
        /\ calls[Len(calls)] \in GroupEnds

C15_Witness ==
    /\ last.op = "delete_cluster"
    /\ roles = <<"worker", "master">>
    /\ Len(calls) = 7
    /\ calls[3] = Call("delete", MachineDeployment(1))
    /\ calls[7] = Call("delete", OpenStackMachineTemplate(2))

--------------------------------------------------------------------------
\* The whole life of a cluster record: the caller may hand over a cluster in
\* any status, its node groups being created, the master group first

Lifecycle ==
    /\ network_driver = "calico"
    /\ roles \in {r \in [1..MaxGroups -> Roles] : r[1] = "master"}
    /\ cluster \in [status : Statuses, api_address : {<< >>}, coe_version : {None}]
    /\ cluster_db = cluster
    /\ nodegroups = [i \in DOMAIN roles |-> [status |-> CREATE_IN_PROGRESS, status_reason |-> None]]
    /\ nodegroups_db = nodegroups
    /\ k8s = Run(create_cluster_calls, [k8s |-> {}, teardown |-> FALSE, creds |-> {}]).k8s
    /\ teardown = FALSE
    /\ creds = {ApplicationCredential}
    /\ calls = << >>
    /\ last = Invocation("none", None, None)
    /\ history = [only_creates |-> FALSE, ready_seen |-> FALSE]

InitLifecycle == Lifecycle /\ faults = 0

NextLifecycle ==
    \/ create_cluster
    \/ delete_cluster
    \/ update_cluster_status
    \/ reconcile_nodegroup_status
    \/ external_reconciler
    \/ caller_marks_delete

SpecLifecycle == InitLifecycle /\ [][NextLifecycle]_vars

\* The steps of the driver: every step but the caller's and the reconciler's
DriverStep == last'.op \notin {"caller_marks_delete", "external_reconciler"}

\* C16: the driver changes cluster.status, on the cluster and on its saved
\* record, only from CREATE_IN_PROGRESS to CREATE_COMPLETE, from
\* UPDATE_IN_PROGRESS to UPDATE_COMPLETE and from DELETE_IN_PROGRESS to
\* DELETE_COMPLETE; and a pass on a cluster in a COMPLETE or FAILED status
\* changes no field of the cluster or of a node group, and no external
\* resource or credential.
C16_ClusterMonotonic ==
    [][/\ DriverStep =>
             \A c \in {<<cluster, cluster'>>, <<cluster_db, cluster_db'>>} :
                 c[1].status # c[2].status =>
                     /\ c[1].status = <<c[1].status[1], "IN", "PROGRESS">>
                     /\ c[2].status = <<c[1].status[1], "COMPLETE">>
       /\ (IsPass /\ cluster.status[Len(cluster.status)] \in {"COMPLETE", "FAILED"}) =>
             /\ cluster' = cluster /\ cluster_db' = cluster_db
             /\ nodegroups' = nodegroups /\ nodegroups_db' = nodegroups_db
             /\ k8s' = k8s /\ teardown' = teardown /\ creds' = creds
             /\ calls' = << >>]_vars

C16_Witness ==
    /\ last.op = "update_cluster_status" /\ last.outcome = "noop"
    /\ cluster.status = <<"UPDATE", "FAILED">>
    /\ creds = {ApplicationCredential}
    /\ Secrets \subseteq k8s
    /\ teardown

\* The phase of a status: what follows the action
PhaseOf(status) == Tail(status)

\* C17: a node group whose status is <action>_COMPLETE or <action>_FAILED keeps
\* that phase through every later poll, whatever the external object reports:
\* it is never put back to <action>_IN_PROGRESS, nor moved from COMPLETE to
\* FAILED or from FAILED to COMPLETE.
C17_NodegroupMonotonic ==
    [][\A i \in DOMAIN roles :
          PhaseOf(nodegroups[i].status) \in {<<"COMPLETE">>, <<"FAILED">>} =>
              /\ PhaseOf(nodegroups'[i].status) = PhaseOf(nodegroups[i].status)
              /\ PhaseOf(nodegroups_db'[i].status) = PhaseOf(nodegroups[i].status)]_vars

--------------------------------------------------------------------------
\* Deletion under the get contract of the facade: get() of a resource that
\* does not exist fails with NotFoundError

get_object(objs, res) == [raised |-> res \notin objs]

\* update_cluster_status, lines 71-141, with line 75 under that contract
update_cluster_status_strict_get ==
    IF get_object(k8s, Cluster).raised
    THEN /\ calls' = << >>
         /\ last' = Pass("raised", "NotFound", << >>, << >>)
         /\ history' = [history EXCEPT !.only_creates = FALSE]
         /\ UNCHANGED <<network_driver, roles, cluster, cluster_db, nodegroups,
                        nodegroups_db, k8s, teardown, creds, faults>>
    ELSE update_cluster_status

\* A cluster whose creation is complete or, with a control plane that never
\* came up, has failed
Created ==
    /\ network_driver \in NetworkDrivers
    /\ roles \in UNION {[1..n -> Roles] : n \in 1..MaxGroups}
    /\ cluster \in
          [status : {CREATE_COMPLETE}, api_address : {ApiAddress(controlPlaneEndpoint)},
           coe_version : Versions]
          \cup [status : {CREATE_FAILED}, api_address : {<< >>}, coe_version : {None}]
    /\ cluster_db = cluster
    /\ nodegroups = [i \in DOMAIN roles |->
                       [status |-> IF cluster.status = CREATE_COMPLETE
                                   THEN CREATE_COMPLETE ELSE CREATE_IN_PROGRESS,
                        status_reason |-> None]]
    /\ nodegroups_db = nodegroups
    /\ k8s = Run(create_cluster_calls, [k8s |-> {}, teardown |-> FALSE, creds |-> {}]).k8s
    /\ teardown = FALSE
    /\ creds = {ApplicationCredential}
    /\ calls = << >>
    /\ last = Invocation("none", None, None)
    /\ history = [only_creates |-> FALSE, ready_seen |-> FALSE]

InitDelete == Created /\ faults = 0

\* The caller deletes a cluster that is not deleted yet
caller_deletes == cluster.status # DELETE_COMPLETE /\ delete_cluster

\* A pass during which the credential backend does not fail
reliable_pass == update_cluster_status_strict_get /\ last'.error # "keystone"

NextDelete ==
    \/ caller_deletes
    \/ caller_marks_delete
    \/ reliable_pass
    \/ external_reconciler

\* The caller keeps polling and the external reconciler finishes what it starts
SpecDelete ==
    InitDelete /\ [][NextDelete]_vars /\ WF_vars(reliable_pass) /\ WF_vars(external_reconciler)

\* C18: once the cluster is in DELETE_IN_PROGRESS, delete_cluster having run,
\* the polls and the external reconciler going on and no backend failing, the
\* cluster comes to DELETE_COMPLETE and stays there, the credential and the
\* five secrets gone.
C18_DeletionCompletes ==
    /\ (cluster.status = DELETE_IN_PROGRESS) ~>
          (/\ cluster.status = DELETE_COMPLETE
           /\ cluster_db.status = DELETE_COMPLETE
           /\ creds = {}
           /\ k8s \cap Secrets = {})
    /\ [][cluster.status = DELETE_COMPLETE =>
             /\ cluster'.status = DELETE_COMPLETE
             /\ creds' = creds
             /\ k8s' \cap Secrets = k8s \cap Secrets]_vars

--------------------------------------------------------------------------
\* The node-group entry points on their own

\* create_nodegroup: lines 187-204
provision_nodegroup ==
    \E i \in DOMAIN roles :
        LET done == create_nodegroup(i)
            after == Run(done, World)
        IN /\ k8s' = after.k8s
           /\ teardown' = after.teardown
           /\ creds' = after.creds
           /\ calls' = done
           /\ last' = Invocation("create_nodegroup", "returned", None)
           /\ history' = [history EXCEPT !.only_creates = FALSE]
           /\ UNCHANGED <<network_driver, roles, cluster, cluster_db, nodegroups,
                          nodegroups_db, faults>>

\* delete_nodegroup: lines 243-252
teardown_nodegroup ==
    \E i \in DOMAIN roles :
        LET done == delete_nodegroup(i)
            after == Run(done, World)
        IN /\ k8s' = after.k8s
           /\ teardown' = after.teardown
           /\ creds' = after.creds
           /\ calls' = done
           /\ last' = Invocation("delete_nodegroup", "returned", None)
           /\ history' = [history EXCEPT !.only_creates = FALSE]
           /\ UNCHANGED <<network_driver, roles, cluster, cluster_db, nodegroups,
                          nodegroups_db, faults>>

\* The two, and create_cluster and delete_cluster, which call them for every
\* node group
NextNodegroups ==
    \/ provision_nodegroup
    \/ teardown_nodegroup
    \/ create_cluster
    \/ delete_cluster

SpecNodegroups == Init /\ [][NextNodegroups]_vars

\* C19: whenever the MachineDeployment of one of the cluster's worker groups
\* exists, the KubeadmConfigTemplate the worker groups share exists too.
C19_SharedTemplate ==
    (\E i \in Workers : MachineDeployment(i) \in k8s) => KubeadmConfigTemplate \in k8s

--------------------------------------------------------------------------
\* A second cluster on the same management cluster and the same Keystone.  The
\* variables hold the first cluster; of the second, of the same shape, only
\* what its operations do to the two backends is kept.  A resource is built
\* from the cluster, resources.Kind(k8s, cluster, ...), and so is the name of
\* the credential, name=cluster.uuid; the Namespace alone is built without:
\* resources.Namespace(k8s), line 42.

\* A naming that leaves the cluster out of the KubeadmConfigTemplate too
Scope_shared_template(own, res) ==
    IF own \/ res \in {Namespace, KubeadmConfigTemplate}
    THEN res ELSE <<res[1], res[2], "other">>

Scope(own, res) ==
    IF own \/ res = Namespace THEN res ELSE <<res[1], res[2], "other">>

ScopeCalls(own, cs) == [j \in DOMAIN cs |-> Call(cs[j].op, Scope(own, cs[j].res))]

\* create_cluster of the other cluster: lines 38-69
other_create_cluster ==
    LET all == ScopeCalls(FALSE, create_cluster_calls)
        at == Position(all, Call("create", Scope(FALSE, ApplicationCredential)))
        conflict == Scope(FALSE, ApplicationCredential) \in creds
        done == IF conflict THEN SubSeq(all, 1, at - 1) ELSE all
        after == Run(done, World)
    IN /\ k8s' = after.k8s
       /\ teardown' = after.teardown
       /\ creds' = after.creds
       /\ calls' = done
       /\ last' = Invocation("other_create_cluster",
                             IF conflict THEN "raised" ELSE "returned",
                             IF conflict THEN "Conflict" ELSE None)
       /\ history' = [history EXCEPT !.only_creates = FALSE]
       /\ UNCHANGED <<network_driver, roles, cluster, cluster_db, nodegroups,
                      nodegroups_db, faults>>

\* delete_cluster of the other cluster: lines 169-176
other_delete_cluster ==
    LET done == ScopeCalls(FALSE, delete_cluster_calls)
        after == Run(done, World)
    IN /\ k8s' = after.k8s
       /\ teardown' = after.teardown
       /\ creds' = after.creds
       /\ calls' = done
       /\ last' = Invocation("other_delete_cluster", "returned", None)
       /\ history' = [history EXCEPT !.only_creates = FALSE]
       /\ UNCHANGED <<network_driver, roles, cluster, cluster_db, nodegroups,
                      nodegroups_db, faults>>

\* update_cluster_status of the other cluster, in DELETE_IN_PROGRESS, its Cluster
\* object gone: lines 120-141
other_update_cluster_status ==
    /\ ~exists(k8s, Scope(FALSE, Cluster))
    /\ LET held == IF Scope(FALSE, ApplicationCredential) \in creds
                   THEN {ApplicationCredential} ELSE {}
           revoked == revoke(held, FALSE)
           done == ScopeCalls(FALSE, revoked.calls \o delete_secrets_calls)
           after == Run(done, World)
       IN /\ k8s' = after.k8s
          /\ teardown' = after.teardown
          /\ creds' = after.creds
          /\ calls' = done
          /\ last' = Invocation("other_update_cluster_status", "saved", None)
          /\ history' = [history EXCEPT !.only_creates = FALSE]
          /\ UNCHANGED <<network_driver, roles, cluster, cluster_db, nodegroups,
                         nodegroups_db, faults>>

NextTwo ==
    \/ Next
    \/ other_create_cluster
    \/ other_delete_cluster
    \/ other_update_cluster_status

\* Two clusters of one network driver
InitTwo == Init /\ network_driver = "calico"

SpecTwo == InitTwo /\ [][NextTwo]_vars

\* The steps of the other cluster's operations
OtherStep ==
    last'.op \in {"other_create_cluster", "other_delete_cluster", "other_update_cluster_status"}

\* What the operations of the cluster itself may write: the resources and the
\* credential its calls name
Written ==
    LET cs == create_cluster_calls \o delete_cluster_calls \o delete_secrets_calls
              \o <<Call("revoke", ApplicationCredential)>>
    IN {cs[j].res : j \in DOMAIN cs}

====
